---- MODULE Spec2Model ----
(***************************************************************************)
(* Model of reaper8055/distributed-cache: three Go packages that share one *)
(* method surface (Contains, Keys, Delete, Update, Get, Set):              *)
(*   "rwlocks" : cache-with-rwlocks/cache/cache.go, one Cache;             *)
(*   "modulo"  : cache-with-inconsistent-vertical-sharding (GetShardIndex),*)
(*   "ring"    : cache-with-consistent-vertical-sharding (GetShardedCache).*)
(* Callers are goroutines; every lock acquisition and release is a step.   *)
(***************************************************************************)
EXTENDS Integers, Sequences, FiniteSets, TLC

\* ---------------------------------------------------------------- bounds
MaxOps == 2
MaxSeqOps == 4
MaxRingOps == 2
MaxRaceOps == 3

Procs == {"g1", "g2"}
Keys_ == {"a", "b"}
Values == {"value-0", "value-1"}
Variants == {"rwlocks", "modulo", "ring"}
\* The n of New(n).
ShardCounts == 0..2
\* The n of New(n) where only the ring is looked at.
RingCounts == 0..3

None == "none"
Nil == "nil"
\* The index stands for "no Cache": the lookup panicked.
Panic == 0 - 1
\* The index of a goroutine that is in no keyed method: c is not in scope.
NoCache == 0 - 2
ErrExists == "already exists"

\* ------------------------------------------------------- hash/fnv New32a
\* A uint32 is kept as two 16-bit halves.
RECURSIVE Xor(_, _, _)
Xor(a, b, bits) ==
    IF bits = 0 THEN 0
    ELSE ((a + b) % 2) + 2 * Xor(a \div 2, b \div 2, bits - 1)

Offset32 == [hi |-> 33052, lo |-> 40389]

Write1(h, byte) ==
    LET x  == (h.lo \div 256) * 256 + Xor(h.lo % 256, byte, 8)
        pl == x * 403
    IN  [hi |-> (h.hi * 403 + (pl \div 65536) + (x % 256) * 256) % 65536,
         lo |-> pl % 65536]

RECURSIVE Write(_, _)
Write(h, bytes) ==
    IF bytes = << >> THEN h ELSE Write(Write1(h, Head(bytes)), Tail(bytes))

Sum32(bytes) == Write(Offset32, bytes)

Less32(x, y) == x.hi < y.hi \/ (x.hi = y.hi /\ x.lo < y.lo)

\* []byte(key)
Bytes(key) ==
    CASE key = "a" -> <<97>>
      [] key = "b" -> <<98>>
      [] key = "c" -> <<99>>

KeyHash == [k \in Keys_ |-> Sum32(Bytes(k))]

\* fmt.Sprintf("%p", ptr): "0x" followed by the address in lower-case hex.
HexChar(d) == IF d < 10 THEN 48 + d ELSE 87 + d
SprintfP(ptr) == <<48, 120>> \o [i \in 1..Len(ptr) |-> HexChar(ptr[i])]

\* Heap addresses the allocator may hand to New, as hex digit strings:
\* 0xc0000134b0 and 0xc000012228.
Addrs == { <<12,0,0,0,0,1,3,4,11,0>>,
           <<12,0,0,0,0,1,2,2,2,8>> }

\* The same with a third address, 0xc000012018.
RingAddrs == Addrs \cup { <<12,0,0,0,0,1,2,0,1,8>> }

ShardHash == [p \in RingAddrs |-> Sum32(SprintfP(p))]

\* ------------------------------------------------------------------ state
VARIABLES
    variant,   \* which package is linked
    intBits,   \* width of Go's int on the build platform (32 or 64)
    s,         \* Shard []*Cache: index -> address of the Cache
    store,     \* index -> Cache.store, a map[string]any
    writer,    \* index -> goroutine holding the Cache's RWMutex exclusively
    readers,   \* index -> goroutines holding the Cache's RWMutex shared
    pc,        \* goroutine -> position in the method it runs
    op,        \* goroutine -> call in progress [name, key, val]
    c,         \* goroutine -> local c / idx: index of the resolved Cache
    val,       \* goroutine -> local val of Get
    ok,        \* goroutine -> local ok of Get / Contains
    last,      \* goroutine -> its last completed call and what it returned
    keys,      \* goroutine -> local keys of Keys()
    mu,        \* goroutine -> holders of local mu of Shard.Keys()
    wg,        \* goroutine -> counter of local wg of Shard.Keys()
    tpc,       \* goroutine -> index -> position of the fan-out goroutine
    todo,      \* goroutine -> index -> keys the range loop has yet to visit
    callers,   \* the goroutines that call the cache
    opsLeft,   \* calls that may still be started
    crashed    \* an unrecovered panic has ended the program

cfg == <<variant, intBits, s, callers>>
locks == <<writer, readers>>
locals == <<c, val, ok>>
fanout == <<keys, mu, wg, tpc, todo>>
vars == <<variant, intBits, s, store, writer, readers, pc, op, c, val, ok,
          last, keys, mu, wg, tpc, todo, callers, opsLeft, crashed>>

Idx == DOMAIN s
len == Cardinality(Idx)

\* ---------------------------------------------------------------- routing
\* uint32 value modulo n, and (2^32 - value) modulo n, from the halves.
Mod32(h, n) == ((h.hi % n) * (65536 % n) + h.lo) % n
NegMod32(h, n) == (((65535 - h.hi) % n) * (65536 % n) + (65536 - h.lo)) % n

\* int(checksum) % len(s): Go's % truncates, and int(checksum) is negative
\* on a 32-bit int when checksum >= 2^31.
GetShardIndex(key) ==
    LET checksum == KeyHash[key]
    IN  IF len = 0 THEN Panic
        ELSE IF intBits = 32 /\ checksum.hi >= 32768
             THEN 0 - NegMod32(checksum, len)
             ELSE Mod32(checksum, len)

\* Mutant: the index drifts with the number of entries of the first Cache.
GetShardByLoad(key) ==
    LET shardIndex == GetShardIndex(key)
    IN  IF shardIndex \in Idx
        THEN (shardIndex + Cardinality(DOMAIN store[0])) % len
        ELSE Panic

\* s[shardIndex]
GetShard(key) ==
    LET shardIndex == GetShardIndex(key)
    IN  IF shardIndex \in Idx THEN shardIndex ELSE Panic

\* for _, shardedCache := range s { if keyHashValue < shardHashValue ... }
\* The loop over a slice sl, from index i on; return s[0] after it.
RECURSIVE RangeOver(_, _, _)
RangeOver(sl, keyHashValue, i) ==
    IF i >= Cardinality(DOMAIN sl) THEN (IF 0 \in DOMAIN sl THEN 0 ELSE Panic)
    ELSE IF Less32(keyHashValue, ShardHash[sl[i]]) THEN i
    ELSE RangeOver(sl, keyHashValue, i + 1)

RangeShards(keyHashValue, i) == RangeOver(s, keyHashValue, i)

GetShardedCache(key) == RangeShards(KeyHash[key], 0)

\* The Cache a keyed method works on.
Resolve(key) ==
    CASE variant = "rwlocks" -> 0
      [] variant = "modulo"  -> GetShard(key)
      [] variant = "ring"    -> GetShardedCache(key)

\* ------------------------------------------------------------ map helpers
Has(m, key) == key \in DOMAIN m
Lookup(m, key) == IF key \in DOMAIN m THEN m[key] ELSE Nil
Assign(m, key, v) == [k \in DOMAIN m \cup {key} |-> IF k = key THEN v ELSE m[k]]
Remove(m, key) == [k \in DOMAIN m \ {key} |-> m[k]]
EmptyMap == [k \in {} |-> Nil]

\* A call in progress: the method, its arguments, and had: whether the key
\* was in its Cache when the call was made, and quiet: for a Delete, whether
\* no other goroutine was inside Set or Update then (both kept for the
\* properties only).
NoCall == [name |-> None, key |-> None, val |-> Nil, had |-> FALSE,
           quiet |-> FALSE]
\* A completed call: its arguments, and what it returned (rval: Get's value,
\* rok: the boolean of Get / Delete / Contains, err: Set's error, rkeys: Keys).
NoResult == [name |-> None, key |-> None, val |-> Nil, had |-> FALSE,
             quiet |-> FALSE,
             rval |-> Nil, rok |-> FALSE, err |-> Nil, rkeys |-> << >>]
Result(call, rval, rok, err, rkeys) ==
    [name |-> call.name, key |-> call.key, val |-> call.val, had |-> call.had,
     quiet |-> call.quiet,
     rval |-> rval, rok |-> rok, err |-> err, rkeys |-> rkeys]

\* ------------------------------------------------------------------- Init
\* NewCache() for "rwlocks"; New(n) otherwise, n caches at distinct addresses.
Slices(n) == { f \in [0..(n - 1) -> Addrs] :
                 \A i, j \in 0..(n - 1) : i # j => f[i] # f[j] }

\* One allocation outcome, for the packages that never look at the addresses.
SomeSlice(n) == CHOOSE f \in Slices(n) : TRUE

\* The caches of s are empty and unlocked, and no goroutine has called yet.
Allocated ==
    /\ store = [i \in DOMAIN s |-> EmptyMap]
    /\ writer = [i \in DOMAIN s |-> None]
    /\ readers = [i \in DOMAIN s |-> {}]
    /\ pc = [p \in Procs |-> "idle"]
    /\ op = [p \in Procs |-> NoCall]
    /\ c = [p \in Procs |-> NoCache]
    /\ val = [p \in Procs |-> Nil]
    /\ ok = [p \in Procs |-> FALSE]
    /\ last = [p \in Procs |-> NoResult]
    /\ keys = [p \in Procs |-> << >>]
    /\ mu = [p \in Procs |-> {}]
    /\ wg = [p \in Procs |-> 0]
    /\ tpc = [p \in Procs |-> [i \in DOMAIN s |-> "none"]]
    /\ todo = [p \in Procs |-> [i \in DOMAIN s |-> {}]]
    /\ crashed = FALSE

Constructed ==
    /\ variant \in Variants
    /\ \E n \in ShardCounts :
         CASE variant = "rwlocks" -> s = SomeSlice(1) /\ intBits = 64
           [] variant = "modulo"  -> s = SomeSlice(n) /\ intBits \in {32, 64}
           [] variant = "ring"    -> s \in Slices(n) /\ intBits = 64
    /\ Allocated

\* Goroutines calling the cache concurrently, as the tests start them.
Init ==
    /\ Constructed
    /\ callers = Procs
    /\ opsLeft = MaxOps

\* One goroutine calling the cache, one call after the other, as main does.
InitSeq ==
    /\ Constructed
    /\ callers = {"g1"}
    /\ opsLeft = MaxSeqOps

\* New(n) of the ring package with any of three addresses per Cache, and one
\* goroutine calling it.
RingSlices(n) == { f \in [0..(n - 1) -> RingAddrs] :
                     \A i, j \in 0..(n - 1) : i # j => f[i] # f[j] }

InitRing ==
    /\ variant = "ring" /\ intBits = 64
    /\ \E n \in RingCounts : s \in RingSlices(n)
    /\ Allocated
    /\ callers = {"g1"}
    /\ opsLeft = MaxRingOps

\* The tests' goroutines with room for a call more than MaxOps.
InitRace ==
    /\ Constructed
    /\ callers = Procs
    /\ opsLeft = MaxRaceOps

\* ---------------------------------------------------------------- actions
\* return: the goroutine records what the call returned and is idle again.
Return(p, result) ==
    /\ last' = [last EXCEPT ![p] = result]
    /\ pc' = [pc EXCEPT ![p] = "idle"]
    /\ op' = [op EXCEPT ![p] = NoCall]
    /\ c' = [c EXCEPT ![p] = NoCache]
    /\ val' = [val EXCEPT ![p] = Nil]
    /\ ok' = [ok EXCEPT ![p] = FALSE]

FirstStep(name) ==
    CASE name = "Get"      -> "Get_RLock"
      [] name = "Set"      -> "Get_RLock"
      [] name = "Delete"   -> "Get_RLock"
      [] name = "Update"   -> "Update_Lock"
      [] name = "Contains" -> "Contains_RLock"

\* A goroutine calls a keyed method; the method first resolves its Cache
\* (c := s.GetShardedCache(key) / idx := s.GetShardIndex(key)), which panics
\* when the index is out of range.
Call(p, name, key, v) ==
    /\ ~crashed /\ p \in callers /\ pc[p] = "idle" /\ opsLeft > 0
    /\ opsLeft' = opsLeft - 1
    /\ op' = [op EXCEPT ![p] =
                [name |-> name, key |-> key, val |-> v,
                 had |-> Resolve(key) # Panic /\ Has(store[Resolve(key)], key),
                 quiet |-> /\ name = "Delete"
                           /\ \A q \in Procs \ {p} :
                                op[q].name \notin {"Set", "Update"}]]
    /\ IF Resolve(key) = Panic
       THEN /\ crashed' = TRUE
            /\ pc' = [pc EXCEPT ![p] = "panic"]
            /\ c' = c
       ELSE /\ crashed' = crashed
            /\ pc' = [pc EXCEPT ![p] = FirstStep(name)]
            /\ c' = [c EXCEPT ![p] = Resolve(key)]
    /\ UNCHANGED <<cfg, store, locks, val, ok, last, fanout>>

\* Mutant: Get always reads the first Cache.
Get_CacheFirst(p) == 0

\* Get: c := s.GetShardedCache(key) / idx := s.GetShardIndex(key)
Get_Cache(p) == Resolve(op[p].key)

\* Get: c.RLock(); val, ok := c.store[key]
Get_RLock(p) ==
    LET i == Get_Cache(p) IN
    /\ ~crashed /\ pc[p] = "Get_RLock"
    /\ writer[i] = None
    /\ readers' = [readers EXCEPT ![i] = @ \cup {p}]
    /\ val' = [val EXCEPT ![p] = Lookup(store[i], op[p].key)]
    /\ ok' = [ok EXCEPT ![p] = Has(store[i], op[p].key)]
    /\ pc' = [pc EXCEPT ![p] = "Get_RUnlock"]
    /\ UNCHANGED <<cfg, store, writer, op, c, last, fanout, opsLeft, crashed>>

\* Mutant: Set does not look at the result of Get.
Set_RefusesNever(found) == FALSE

\* Set: if _, ok := c.Get(key); ok { return fmt.Errorf(...) }
Set_Refuses(found) == found

\* Delete: if _, ok := c.Get(key); !ok { return false }
Delete_Refuses(found) == ~found

\* Get: deferred c.RUnlock(); return val, ok -- to the caller of Get, which
\* is the goroutine itself, Set or Delete.
Get_RUnlock(p) ==
    LET i == Get_Cache(p) IN
    /\ ~crashed /\ pc[p] = "Get_RUnlock"
    /\ readers' = [readers EXCEPT ![i] = @ \ {p}]
    /\ CASE op[p].name = "Get" ->
              Return(p, Result(op[p], val[p], ok[p], Nil, << >>))
         [] op[p].name = "Set" ->
              IF Set_Refuses(ok[p])
              THEN Return(p, Result(op[p], Nil, FALSE, ErrExists, << >>))
              ELSE /\ pc' = [pc EXCEPT ![p] = "Set_Lock"]
                   /\ UNCHANGED <<op, c, val, ok, last>>
         [] op[p].name = "Delete" ->
              IF Delete_Refuses(ok[p])
              THEN Return(p, Result(op[p], Nil, FALSE, Nil, << >>))
              ELSE /\ pc' = [pc EXCEPT ![p] = "Delete_Lock"]
                   /\ UNCHANGED <<op, c, val, ok, last>>
    /\ UNCHANGED <<cfg, store, writer, fanout, opsLeft, crashed>>

\* Mutant: the statement is run without waiting for the lock to be free.
LockNoWait(p, step, next, m) ==
    /\ ~crashed /\ pc[p] = step
    /\ writer' = [writer EXCEPT ![c[p]] = p]
    /\ store' = [store EXCEPT ![c[p]] = m]
    /\ pc' = [pc EXCEPT ![p] = next]
    /\ UNCHANGED <<cfg, readers, op, locals, last, fanout, opsLeft, crashed>>

\* Mutant: the statement is run on the first Cache of the slice.
LockFirst(p, step, next, m) ==
    /\ ~crashed /\ pc[p] = step
    /\ writer[c[p]] = None /\ readers[c[p]] = {}
    /\ writer' = [writer EXCEPT ![c[p]] = p]
    /\ store' = [store EXCEPT ![0] = m]
    /\ pc' = [pc EXCEPT ![p] = next]
    /\ UNCHANGED <<cfg, readers, op, locals, last, fanout, opsLeft, crashed>>

\* Mutant: one lock for all caches: the statement waits for every Cache.
LockGlobal(p, step, next, m) ==
    /\ ~crashed /\ pc[p] = step
    /\ \A i \in Idx : writer[i] = None /\ readers[i] = {}
    /\ writer' = [writer EXCEPT ![c[p]] = p]
    /\ store' = [store EXCEPT ![c[p]] = m]
    /\ pc' = [pc EXCEPT ![p] = next]
    /\ UNCHANGED <<cfg, readers, op, locals, last, fanout, opsLeft, crashed>>

\* c.Lock(), then the statement run under it.
Lock(p, step, next, m) ==
    /\ ~crashed /\ pc[p] = step
    /\ writer[c[p]] = None /\ readers[c[p]] = {}
    /\ writer' = [writer EXCEPT ![c[p]] = p]
    /\ store' = [store EXCEPT ![c[p]] = m]
    /\ pc' = [pc EXCEPT ![p] = next]
    /\ UNCHANGED <<cfg, readers, op, locals, last, fanout, opsLeft, crashed>>

\* deferred c.Unlock(), and the return.
Unlock(p, step, result) ==
    /\ ~crashed /\ pc[p] = step
    /\ writer' = [writer EXCEPT ![c[p]] = None]
    /\ Return(p, result)
    /\ UNCHANGED <<cfg, store, readers, fanout, opsLeft, crashed>>

\* Mutant: Set replaces the map by one that holds the new entry only.
Set_StoreAlone(m, key, v) == [k \in {key} |-> v]

\* Set: c.Lock(); c.store[key] = val
Set_Store(m, key, v) == Assign(m, key, v)

Set_Lock(p) ==
    Lock(p, "Set_Lock", "Set_Unlock",
         Set_Store(store[c[p]], op[p].key, op[p].val))

\* Set: return nil
Set_Unlock(p) ==
    Unlock(p, "Set_Unlock", Result(op[p], Nil, FALSE, Nil, << >>))

\* Mutant: Update writes only keys that are already present.
Update_StoreIfPresent(m, key, v) == IF Has(m, key) THEN Assign(m, key, v) ELSE m

\* Update: c.Lock(); c.store[key] = val
Update_Store(m, key, v) == Assign(m, key, v)

Update_Lock(p) ==
    Lock(p, "Update_Lock", "Update_Unlock",
         Update_Store(store[c[p]], op[p].key, op[p].val))

Update_Unlock(p) ==
    Unlock(p, "Update_Unlock", Result(op[p], Nil, FALSE, Nil, << >>))

\* Mutant: Delete empties the map.
Delete_StoreAll(m, key) == EmptyMap

\* Delete: c.Lock(); delete(c.store, key)
Delete_Store(m, key) == Remove(m, key)

Delete_Lock(p) ==
    Lock(p, "Delete_Lock", "Delete_Unlock",
         Delete_Store(store[c[p]], op[p].key))

\* Delete: return true
Delete_Unlock(p) ==
    Unlock(p, "Delete_Unlock", Result(op[p], Nil, TRUE, Nil, << >>))

\* Contains: c.RLock(); _, ok := c.store[key]
Contains_RLock(p) ==
    /\ ~crashed /\ pc[p] = "Contains_RLock"
    /\ writer[c[p]] = None
    /\ readers' = [readers EXCEPT ![c[p]] = @ \cup {p}]
    /\ ok' = [ok EXCEPT ![p] = Has(store[c[p]], op[p].key)]
    /\ pc' = [pc EXCEPT ![p] = "Contains_RUnlock"]
    /\ UNCHANGED <<cfg, store, writer, op, c, val, last, fanout, opsLeft, crashed>>

\* Contains: return !ok
ContainsResult(found) == ~found

Contains_RUnlock(p) ==
    /\ ~crashed /\ pc[p] = "Contains_RUnlock"
    /\ readers' = [readers EXCEPT ![c[p]] = @ \ {p}]
    /\ Return(p, Result(op[p], Nil, ContainsResult(ok[p]), Nil, << >>))
    /\ UNCHANGED <<cfg, store, writer, fanout, opsLeft, crashed>>

\* ------------------------------------------------------------------- Keys
\* make([]string, n): n zero-valued strings.
Make(n) == [i \in 1..n |-> ""]

\* The orders in which a range loop may visit the keys of a map.
Orders(m) == { f \in [1..Cardinality(DOMAIN m) -> DOMAIN m] :
                 \A i, j \in DOMAIN f : i # j => f[i] # f[j] }

\* Cache.Keys: the buffer the appends start from.
CacheKeysBuffer(m) == Make(Cardinality(DOMAIN m))

\* Mutant: Shard.Keys sizes its buffer like Cache.Keys, by what is stored.
ShardKeysBufferSized == Make(Cardinality(UNION {DOMAIN store[i] : i \in Idx}))

\* Shard.Keys: keys := make([]string, 0)
ShardKeysBuffer == Make(0)

\* A goroutine calls Keys().  Cache.Keys goes for the lock; Shard.Keys
\* does wg.Add(len(s)) and starts one goroutine per Cache, then waits.
CallKeys(p) ==
    /\ ~crashed /\ p \in callers /\ pc[p] = "idle" /\ opsLeft > 0
    /\ opsLeft' = opsLeft - 1
    /\ op' = [op EXCEPT ![p] = [NoCall EXCEPT !.name = "Keys"]]
    /\ IF variant = "rwlocks"
       THEN /\ pc' = [pc EXCEPT ![p] = "Keys_RLock"]
            /\ UNCHANGED fanout
       ELSE /\ pc' = [pc EXCEPT ![p] = "Keys_Wait"]
            /\ keys' = [keys EXCEPT ![p] = ShardKeysBuffer]
            /\ wg' = [wg EXCEPT ![p] = len]
            /\ tpc' = [tpc EXCEPT ![p] = [i \in Idx |-> "RLock"]]
            /\ UNCHANGED <<mu, todo>>
    /\ UNCHANGED <<cfg, store, locks, locals, last, crashed>>

\* Cache.Keys: c.RLock(); keys := make(...); for k := range c.store {append}
Keys_RLock(p) ==
    /\ ~crashed /\ pc[p] = "Keys_RLock"
    /\ writer[0] = None
    /\ readers' = [readers EXCEPT ![0] = @ \cup {p}]
    /\ \E order \in Orders(store[0]) :
         keys' = [keys EXCEPT ![p] = CacheKeysBuffer(store[0]) \o order]
    /\ pc' = [pc EXCEPT ![p] = "Keys_RUnlock"]
    /\ UNCHANGED <<cfg, store, writer, op, locals, last,
                   mu, wg, tpc, todo, opsLeft, crashed>>

\* Cache.Keys: deferred c.RUnlock(); return keys
Keys_RUnlock(p) ==
    /\ ~crashed /\ pc[p] = "Keys_RUnlock"
    /\ readers' = [readers EXCEPT ![0] = @ \ {p}]
    /\ Return(p, Result(op[p], Nil, FALSE, Nil, keys[p]))
    /\ keys' = [keys EXCEPT ![p] = << >>]
    /\ UNCHANGED <<cfg, store, writer, mu, wg, tpc, todo,
                   opsLeft, crashed>>

\* Mutant: the goroutine for s[i] ranges over the map without the lock.
Task_NoRLock(p, i) ==
    /\ ~crashed /\ tpc[p][i] = "RLock"
    /\ todo' = [todo EXCEPT ![p][i] = DOMAIN store[i]]
    /\ tpc' = [tpc EXCEPT ![p][i] = "range"]
    /\ UNCHANGED <<cfg, store, locks, pc, op, locals, last,
                   keys, mu, wg, opsLeft, crashed>>

\* Shard.Keys, goroutine for s[i]: c.RLock(); the range loop starts.
Task_RLock(p, i) ==
    /\ ~crashed /\ tpc[p][i] = "RLock"
    /\ writer[i] = None
    /\ readers' = [readers EXCEPT ![i] = @ \cup {p}]
    /\ todo' = [todo EXCEPT ![p][i] = DOMAIN store[i]]
    /\ tpc' = [tpc EXCEPT ![p][i] = "range"]
    /\ UNCHANGED <<cfg, store, writer, pc, op, locals, last,
                   keys, mu, wg, opsLeft, crashed>>

\* ... mu.Lock()
Task_MuLock(p, i) ==
    /\ ~crashed /\ tpc[p][i] = "range" /\ todo[p][i] # {}
    /\ mu[p] = {}
    /\ mu' = [mu EXCEPT ![p] = {i}]
    /\ tpc' = [tpc EXCEPT ![p][i] = "append"]
    /\ UNCHANGED <<cfg, store, locks, pc, op, locals, last,
                   keys, wg, todo, opsLeft, crashed>>

\* ... keys = append(keys, key); mu.Unlock()
Task_Append(p, i) ==
    /\ ~crashed /\ tpc[p][i] = "append"
    /\ \E key \in todo[p][i] :
         /\ keys' = [keys EXCEPT ![p] = Append(@, key)]
         /\ todo' = [todo EXCEPT ![p][i] = @ \ {key}]
    /\ mu' = [mu EXCEPT ![p] = {}]
    /\ tpc' = [tpc EXCEPT ![p][i] = "range"]
    /\ UNCHANGED <<cfg, store, locks, pc, op, locals, last,
                   wg, opsLeft, crashed>>

\* ... the loop is over: c.RUnlock(); wg.Done()
Task_RUnlock(p, i) ==
    /\ ~crashed /\ tpc[p][i] = "range" /\ todo[p][i] = {}
    /\ readers' = [readers EXCEPT ![i] = @ \ {p}]
    /\ wg' = [wg EXCEPT ![p] = @ - 1]
    /\ tpc' = [tpc EXCEPT ![p][i] = "none"]
    /\ UNCHANGED <<cfg, store, writer, pc, op, locals, last,
                   keys, mu, todo, opsLeft, crashed>>

\* Shard.Keys: wg.Wait(); return keys
Keys_Wait(p) ==
    /\ ~crashed /\ pc[p] = "Keys_Wait"
    /\ wg[p] = 0
    /\ Return(p, Result(op[p], Nil, FALSE, Nil, keys[p]))
    /\ keys' = [keys EXCEPT ![p] = << >>]
    /\ UNCHANGED <<cfg, store, locks, mu, wg, tpc, todo,
                   opsLeft, crashed>>

\* ------------------------------------------------------------------- Next
Next ==
    \/ \E p \in Procs, key \in Keys_ : Call(p, "Get", key, Nil)
    \/ \E p \in Procs, key \in Keys_, v \in Values : Call(p, "Set", key, v)
    \/ \E p \in Procs, key \in Keys_, v \in Values : Call(p, "Update", key, v)
    \/ \E p \in Procs, key \in Keys_ : Call(p, "Delete", key, Nil)
    \/ \E p \in Procs, key \in Keys_ : Call(p, "Contains", key, Nil)
    \/ \E p \in Procs : CallKeys(p)
    \/ \E p \in Procs : Get_RLock(p)
    \/ \E p \in Procs : Get_RUnlock(p)
    \/ \E p \in Procs : Set_Lock(p)
    \/ \E p \in Procs : Set_Unlock(p)
    \/ \E p \in Procs : Update_Lock(p)
    \/ \E p \in Procs : Update_Unlock(p)
    \/ \E p \in Procs : Delete_Lock(p)
    \/ \E p \in Procs : Delete_Unlock(p)
    \/ \E p \in Procs : Contains_RLock(p)
    \/ \E p \in Procs : Contains_RUnlock(p)
    \/ \E p \in Procs : Keys_RLock(p)
    \/ \E p \in Procs : Keys_RUnlock(p)
    \/ \E p \in Procs, i \in Idx : Task_RLock(p, i)
    \/ \E p \in Procs, i \in Idx : Task_MuLock(p, i)
    \/ \E p \in Procs, i \in Idx : Task_Append(p, i)
    \/ \E p \in Procs, i \in Idx : Task_RUnlock(p, i)
    \/ \E p \in Procs : Keys_Wait(p)

Spec == Init /\ [][Next]_vars

SeqSpec == InitSeq /\ [][Next]_vars

\* The steps of goroutines that call Set, Delete and Keys only.
RaceNext ==
    \/ \E p \in Procs, key \in Keys_ : Call(p, "Set", key, "value-0")
    \/ \E p \in Procs, key \in Keys_ : Call(p, "Delete", key, Nil)
    \/ \E p \in Procs : CallKeys(p)
    \/ \E p \in Procs : Get_RLock(p)
    \/ \E p \in Procs : Get_RUnlock(p)
    \/ \E p \in Procs : Set_Lock(p)
    \/ \E p \in Procs : Set_Unlock(p)
    \/ \E p \in Procs : Delete_Lock(p)
    \/ \E p \in Procs : Delete_Unlock(p)
    \/ \E p \in Procs : Keys_RLock(p)
    \/ \E p \in Procs : Keys_RUnlock(p)
    \/ \E p \in Procs, i \in Idx : Task_RLock(p, i)
    \/ \E p \in Procs, i \in Idx : Task_MuLock(p, i)
    \/ \E p \in Procs, i \in Idx : Task_Append(p, i)
    \/ \E p \in Procs, i \in Idx : Task_RUnlock(p, i)
    \/ \E p \in Procs : Keys_Wait(p)

RaceSpec == InitRace /\ [][RaceNext]_vars

\* The steps a goroutine takes inside a call, and those of the goroutines
\* its Keys() has started.
Progress(p) ==
    \/ Get_RLock(p) \/ Get_RUnlock(p)
    \/ Set_Lock(p) \/ Set_Unlock(p)
    \/ Update_Lock(p) \/ Update_Unlock(p)
    \/ Delete_Lock(p) \/ Delete_Unlock(p)
    \/ Contains_RLock(p) \/ Contains_RUnlock(p)
    \/ Keys_RLock(p) \/ Keys_RUnlock(p) \/ Keys_Wait(p)
    \/ \E i \in Idx : \/ Task_RLock(p, i) \/ Task_MuLock(p, i)
                       \/ Task_Append(p, i) \/ Task_RUnlock(p, i)

\* The Go scheduler runs every goroutine that stays runnable.
FairSpec == Init /\ [][Next]_vars /\ \A p \in Procs : WF_vars(Progress(p))

\* The steps of the sharded packages only.
RingNext ==
    \/ \E p \in Procs, key \in Keys_ : Call(p, "Get", key, Nil)
    \/ \E p \in Procs, key \in Keys_, v \in Values : Call(p, "Set", key, v)
    \/ \E p \in Procs, key \in Keys_, v \in Values : Call(p, "Update", key, v)
    \/ \E p \in Procs, key \in Keys_ : Call(p, "Delete", key, Nil)
    \/ \E p \in Procs, key \in Keys_ : Call(p, "Contains", key, Nil)
    \/ \E p \in Procs : CallKeys(p)
    \/ \E p \in Procs : Get_RLock(p)
    \/ \E p \in Procs : Get_RUnlock(p)
    \/ \E p \in Procs : Set_Lock(p)
    \/ \E p \in Procs : Set_Unlock(p)
    \/ \E p \in Procs : Update_Lock(p)
    \/ \E p \in Procs : Update_Unlock(p)
    \/ \E p \in Procs : Delete_Lock(p)
    \/ \E p \in Procs : Delete_Unlock(p)
    \/ \E p \in Procs : Contains_RLock(p)
    \/ \E p \in Procs : Contains_RUnlock(p)
    \/ \E p \in Procs, i \in Idx : Task_RLock(p, i)
    \/ \E p \in Procs, i \in Idx : Task_MuLock(p, i)
    \/ \E p \in Procs, i \in Idx : Task_Append(p, i)
    \/ \E p \in Procs, i \in Idx : Task_RUnlock(p, i)
    \/ \E p \in Procs : Keys_Wait(p)

RingSpec == InitRing /\ [][RingNext]_vars

\* ------------------------------------------------------------- properties
Sharded == variant \in {"modulo", "ring"}
Quiescent == \A p \in Procs : pc[p] = "idle"
Called == {p \in Procs : last[p].name # None}
\* Every goroutine that has called the cache has called it exactly once.
OneCallEach == Cardinality(Called) = (MaxOps - opsLeft)

RECURSIVE SumSizes(_)
SumSizes(I) ==
    IF I = {} THEN 0
    ELSE LET i == CHOOSE j \in I : TRUE
         IN  Cardinality(DOMAIN store[i]) + SumSizes(I \ {i})

\* The keys stored in any Cache, and the number of entries over all of them.
AllKeys == UNION {DOMAIN store[i] : i \in Idx}
Entries == SumSizes(Idx)

Elems(q) == {q[i] : i \in DOMAIN q}
NoDuplicates(q) == \A i, j \in DOMAIN q : i # j => q[i] # q[j]

\* C1: when two goroutines call Set with the same key while it is absent,
\* exactly one of them returns nil, the other returns the already-exists
\* error, and the stored value is the one the successful caller supplied.
C1_SetAtomic ==
    \A p, q \in Procs :
        ( /\ p # q /\ Quiescent
          /\ last[p].name = "Set" /\ last[q].name = "Set"
          /\ last[p].key = last[q].key
          /\ ~last[p].had /\ ~last[q].had )
        => \/ /\ last[p].err = Nil /\ last[q].err = ErrExists
              /\ Lookup(store[Resolve(last[p].key)], last[p].key) = last[p].val
           \/ /\ last[q].err = Nil /\ last[p].err = ErrExists
              /\ Lookup(store[Resolve(last[q].key)], last[q].key) = last[q].val

\* C2: once concurrent Set calls with pairwise distinct keys, and Get calls,
\* one per goroutine, have all returned, every Set has succeeded, each key
\* holds the value its Set supplied, and the caches hold as many entries
\* as keys were set.
C2_Sets == {p \in Called : last[p].name = "Set"}
C3_KeysIsUnion ==
    \A p \in Procs :
        (Quiescent /\ Sharded /\ last[p].name = "Keys")
        => /\ Elems(last[p].rkeys) = AllKeys
           /\ NoDuplicates(last[p].rkeys)
           /\ "" \notin Elems(last[p].rkeys)
           /\ Len(last[p].rkeys) = Entries

C3_Witness ==
    \E p \in Procs :
        /\ Quiescent /\ Sharded /\ last[p].name = "Keys"
        /\ len = 2 /\ \A i \in Idx : store[i] # EmptyMap
        /\ Len(last[p].rkeys) = 2

\* C4: Cache.Keys() returns exactly the keys of the map: as many elements
\* as live entries, no empty string, no duplicate.
C4_CacheKeysExact ==
    \A p \in Procs :
        (Quiescent /\ variant = "rwlocks" /\ last[p].name = "Keys")
        => /\ Len(last[p].rkeys) = Cardinality(DOMAIN store[0])
           /\ Elems(last[p].rkeys) = DOMAIN store[0]
           /\ NoDuplicates(last[p].rkeys)

\* C5: Contains(key) returns true if and only if key is in its Cache.
C5_ContainsIffPresent ==
    \A p \in Procs :
        (Quiescent /\ last[p].name = "Contains")
        => last[p].rok = Has(store[Resolve(last[p].key)], last[p].key)

\* A step in which goroutine p returns from the call it is in.
Returns(p) == pc[p] # "idle" /\ pc'[p] = "idle"
\* p is in a call of method name on the key of its previous call.
Again(p, name) == op[p].name = name /\ op[p].key = last[p].key
\* The Cache of key holds value v for it, before / after the step.
Holds(key, v) == Lookup(store[Resolve(key)], key) = v
HoldsNext(key, v) == Lookup(store'[Resolve(key)], key) = v

\* C6: with a single caller, a Set(k, v2) that follows a successful
\* Set(k, v1) returns the already-exists error and changes nothing: no
\* step of it changes a map, and k still holds v1 when it returns.
C6_Step(p) ==
    (last[p].name = "Set" /\ last[p].err = Nil /\ Again(p, "Set"))
    => /\ store' = store
       /\ Returns(p) => /\ last'[p].err = ErrExists
                        /\ HoldsNext(op[p].key, last[p].val)

C6_SecondSetFails == [][\A p \in Procs : C6_Step(p)]_vars

\* The second Set has found k and is about to return the error.
C6_Witness ==
    \E p \in Procs :
        /\ last[p].name = "Set" /\ last[p].err = Nil /\ Again(p, "Set")
        /\ op[p].val # last[p].val
        /\ pc[p] = "Get_RUnlock" /\ ok[p]
        /\ Holds(op[p].key, last[p].val)

\* C7: with a single caller, Set(k, v) on a key that is not present returns
\* nil and stores v, and a Get(k) that follows it returns (v, true).
C7_Step(p) ==
    /\ (op[p].name = "Set" /\ ~op[p].had /\ Returns(p))
       => last'[p].err = Nil /\ HoldsNext(op[p].key, op[p].val)
    /\ (last[p].name = "Set" /\ last[p].err = Nil /\ Again(p, "Get")
        /\ Returns(p))
       => last'[p].rval = last[p].val /\ last'[p].rok

C8_Step(p) ==
    /\ (op[p].name = "Delete" /\ ~op[p].had)
       => /\ store' = store
          /\ Returns(p) => ~last'[p].rok
    /\ (op[p].name = "Delete" /\ op[p].had)
       => /\ store' \in {store, [store EXCEPT ![Resolve(op[p].key)] =
                                    Remove(@, op[p].key)]}
          /\ Returns(p) => /\ last'[p].rok
                           /\ ~Has(store'[Resolve(op[p].key)], op[p].key)
    /\ (last[p].name = "Delete" /\ Again(p, "Get") /\ Returns(p))
       => ~last'[p].rok /\ last'[p].rval = Nil

C9_Step(p) ==
    /\ (op[p].name = "Update" /\ Returns(p))
       => last'[p].err = Nil /\ HoldsNext(op[p].key, op[p].val)
    /\ (last[p].name = "Update" /\ Again(p, "Get") /\ Returns(p))
       => last'[p].rval = last[p].val /\ last'[p].rok

C9_Update == [][\A p \in Procs : C9_Step(p)]_vars

\* The Get after an Update of a key that was absent has read the value.
C9_Witness ==
    \E p \in Procs :
        /\ last[p].name = "Update" /\ ~last[p].had
        /\ Again(p, "Get") /\ pc[p] = "Get_RUnlock"
        /\ ok[p] /\ val[p] = last[p].val

\* C10: the Cache a key resolves to is the same before and after every
\* step: no call, lookup or change of the maps moves a key.
C10_RoutingFixed == [][\A key \in Keys_ : Resolve(key)' = Resolve(key)]_vars

C10_Witness ==
    /\ Quiescent /\ opsLeft = 0 /\ variant = "ring" /\ len = 2
    /\ \E key \in Keys_ : Resolve(key) = 1
    /\ \A i \in Idx : store[i] # EmptyMap

\* --------------------------------------------------------- ring properties
\* Goroutine p is inside a keyed method and has resolved its Cache c[p].
Routed(p) == pc[p] \notin {"idle", "panic"} /\ op[p].key \in Keys_
\* The ring position of the Cache at index i, and x <= y on uint32.
Position(i) == ShardHash[s[i]]
Leq32(x, y) == ~Less32(y, x)

\* C11: a key whose hash does not exceed the largest ring position is
\* routed to the Cache with the smallest position >= hash(key), whatever
\* the order of the caches in the slice.
C11_Successor ==
    \A p \in Procs :
        ( /\ variant = "ring" /\ Routed(p)
          /\ \E i \in Idx : Leq32(KeyHash[op[p].key], Position(i)) )
        => /\ Leq32(KeyHash[op[p].key], Position(c[p]))
           /\ \A j \in Idx : Leq32(KeyHash[op[p].key], Position(j))
                               => Leq32(Position(c[p]), Position(j))

\* C12: a key whose hash exceeds every ring position is routed to the
\* Cache with the smallest ring position.
C12_Wraparound ==
    \A p \in Procs :
        ( /\ variant = "ring" /\ Routed(p)
          /\ \A i \in Idx : Less32(Position(i), KeyHash[op[p].key]) )
        => \A j \in Idx : Leq32(Position(c[p]), Position(j))

\* ----------------------------------------------------- further properties
\* C13: New never hands an empty shard set to the caller, so no goroutine
\* has made a call on an empty shard set, and none has panicked on one.
C13_NeverEmpty ==
    (Sharded /\ len = 0)
    => /\ ~crashed
       /\ \A p \in Procs : pc[p] = "idle" /\ last[p].name = None

\* A plain map as the reference: the map after a call, and what it returns.
RefApply(m, call) ==
    CASE call.name = "Get" ->
           [m |-> m, rval |-> Lookup(m, call.key), rok |-> Has(m, call.key),
            err |-> Nil]
      [] call.name = "Set" ->
           IF Has(m, call.key)
           THEN [m |-> m, rval |-> Nil, rok |-> FALSE, err |-> ErrExists]
           ELSE [m |-> Assign(m, call.key, call.val), rval |-> Nil,
                 rok |-> FALSE, err |-> Nil]
      [] call.name = "Update" ->
           [m |-> Assign(m, call.key, call.val), rval |-> Nil, rok |-> FALSE,
            err |-> Nil]
      [] call.name = "Delete" ->
           [m |-> Remove(m, call.key), rval |-> Nil, rok |-> Has(m, call.key),
            err |-> Nil]

SameResult(ref, result) ==
    ref.rval = result.rval /\ ref.rok = result.rok /\ ref.err = result.err

\* The results of first and second, and the map m they leave, are those of
\* the reference running first and then second on an empty map.
RefOrder(first, second, m) ==
    LET r1 == RefApply(EmptyMap, first)
        r2 == RefApply(r1.m, second)
    IN  SameResult(r1, first) /\ SameResult(r2, second) /\ r2.m = m

\* C14: the results of concurrent Get / Set / Update / Delete calls on one
\* Cache are those of the same calls made one after the other, in some
\* order, on a plain map.  Here: two goroutines, one call each, on a Cache
\* that was empty.  (What Contains returns is the matter of C5.)
C14_Linearizable ==
    \A p, q \in Procs :
        ( /\ p # q /\ Quiescent /\ OneCallEach
          /\ last[p].name \in {"Get", "Set", "Update", "Delete"}
          /\ last[q].name \in {"Get", "Set", "Update", "Delete"}
          /\ Resolve(last[p].key) = Resolve(last[q].key) )
        => \/ RefOrder(last[p], last[q], store[Resolve(last[p].key)])
           \/ RefOrder(last[q], last[p], store[Resolve(last[p].key)])

\* The goroutine of p's Keys() for s[i] is inside its range loop.
Ranging(p, i) == tpc[p][i] \in {"range", "append"}
\* The keys p's Keys() has collected from s[i], before / after the step.
Contributed(p, i) == {k \in Elems(keys[p]) : Resolve(k) = i}
ContributedNext(p, i) == {k \in Elems(keys'[p]) : Resolve(k) = i}

\* C15: while the goroutine of a Keys() call ranges over s[i], no step
\* inserts into or deletes from s[i]; the keys it has collected and has yet
\* to visit are the key set of s[i]; when its loop ends, the keys collected
\* from s[i] are exactly the key set of s[i] at that instant, and they stay
\* as they are until Keys() returns, whatever happens to other caches.
C15_Step(p, i) ==
    /\ Ranging(p, i)
       => /\ DOMAIN store'[i] = DOMAIN store[i]
          /\ Contributed(p, i) \cup todo[p][i] = DOMAIN store[i]
          /\ Contributed(p, i) \cap todo[p][i] = {}
    /\ (Ranging(p, i) /\ tpc'[p][i] = "none")
       => Contributed(p, i) = DOMAIN store[i]
    /\ (pc[p] = "Keys_Wait" /\ pc'[p] = "Keys_Wait" /\ tpc[p][i] = "none")
       => ContributedNext(p, i) = Contributed(p, i)

C15_PerShardAtomic ==
    [][Sharded => \A p \in Procs : \A i \in Idx : C15_Step(p, i)]_vars

\* Keys() of p has collected a key of s[i] and still holds the read lock
\* of s[i], while a writer of another goroutine waits for that lock.
C15_Witness ==
    \E p, q \in Procs : \E i \in Idx :
        /\ Sharded /\ pc[p] = "Keys_Wait" /\ tpc[p][i] = "range"
        /\ Contributed(p, i) # {} /\ p \in readers[i]
        /\ pc[q] \in {"Set_Lock", "Update_Lock", "Delete_Lock"} /\ c[q] = i

\* Goroutine p is past a statement that writes / reads the map of its Cache
\* and has not yet released the lock.
Writing(p) == pc[p] \in {"Set_Unlock", "Update_Unlock", "Delete_Unlock"}
Reading(p) == pc[p] \in {"Get_RUnlock", "Contains_RUnlock"}

\* C16, in every state: a Cache locked exclusively has no reader; a
\* goroutine between a write of a map and its Unlock holds the lock
\* exclusively; a goroutine between a read of a map and its RUnlock, or
\* inside the range loop of Keys(), holds it shared.
C16_Held ==
    /\ \A i \in Idx : writer[i] # None => readers[i] = {}
    /\ \A p \in Procs :
         /\ Writing(p) => writer[c[p]] = p
         /\ Reading(p) => p \in readers[c[p]]
         /\ pc[p] = "Keys_RUnlock" => p \in readers[0]
         /\ \A i \in Idx : Ranging(p, i) => p \in readers[i]

\* C16, in every step: a map changes only in a step that starts with its
\* Cache unlocked and ends with the lock held exclusively by the goroutine
\* that made the change; a goroutine reads a map (into val, ok) only in a
\* step that ends with it holding the lock shared.
C16_Step ==
    /\ \A i \in Idx :
         store'[i] # store[i]
         => /\ writer[i] = None /\ readers[i] = {}
            /\ \E p \in Procs : writer'[i] = p /\ c[p] = i /\ pc[p] # pc'[p]
                                /\ pc'[p] \in {"Set_Unlock", "Update_Unlock",
                                                "Delete_Unlock"}
    /\ \A p \in Procs :
         (pc'[p] # "idle" /\ (val'[p] # val[p] \/ ok'[p] # ok[p]))
         => writer[c[p]] = None /\ p \in readers'[c[p]]

C16_LockDiscipline == []C16_Held /\ [][C16_Step]_vars

\* A Set holds the lock of s[i] after its write; the goroutine of a Keys()
\* call for s[i] has yet to get the lock, the one for the other Cache is done.
C16_Witness ==
    \E p, q \in Procs : \E i \in Idx :
        /\ p # q /\ Sharded /\ len = 2
        /\ pc[p] = "Set_Unlock" /\ c[p] = i /\ writer[i] = p
        /\ store[i] # EmptyMap
        /\ pc[q] = "Keys_Wait" /\ tpc[q][i] = "RLock"
        /\ \E j \in Idx : j # i /\ tpc[q][j] = "none"

\* C17: when two goroutines call Delete(k) while k is present and no Set or
\* Update is in progress, and no call is made after theirs, exactly one of
\* them returns true.
C17_OneDeleteWins ==
    \A p, q \in Procs :
        ( /\ p # q /\ Quiescent
          /\ last[p].name = "Delete" /\ last[q].name = "Delete"
          /\ last[p].key = last[q].key
          /\ last[p].had /\ last[q].had
          /\ last[p].quiet /\ last[q].quiet
          /\ opsLeft = MaxRaceOps - 3 )
        => last[p].rok # last[q].rok

\* C18: for a shard set of one or more caches, GetShardIndex(key) is
\* hash(key) mod len(s) with the hash taken as an unsigned 32-bit value, on a
\* 32-bit and on a 64-bit int, so it is an index of s and the call of a
\* keyed method does not panic in the lookup.
C18_IndexInRange ==
    \A p \in Procs :
        (variant = "modulo" /\ len >= 1 /\ op[p].key \in Keys_)
        => /\ GetShardIndex(op[p].key) = Mod32(KeyHash[op[p].key], len)
           /\ GetShardIndex(op[p].key) \in Idx
           /\ pc[p] # "panic"

\* C19: the index a key is routed to is decided by the number of caches
\* alone: every shard set that New can return for the same n holds each
\* stored key in the Cache of the same index.
C19_Reproducible ==
    variant = "ring"
    => \A sl \in RingSlices(len) : \A i \in Idx : \A k \in DOMAIN store[i] :
           RangeOver(sl, KeyHash[k], 0) = i

\* The Cache, by address, that owns key in the slice sl.
Owner(sl, key) == sl[RangeOver(sl, KeyHash[key], 0)]
\* sl with a Cache at address addr put in at index at, and sl without the
\* Cache at index at.
Inserted(sl, at, addr) ==
    [i \in 0..Cardinality(DOMAIN sl) |->
        IF i < at THEN sl[i] ELSE IF i = at THEN addr ELSE sl[i - 1]]
Removed(sl, at) ==
    [i \in 0..(Cardinality(DOMAIN sl) - 2) |->
        IF i < at THEN sl[i] ELSE sl[i + 1]]
\* The Cache of sl next after the position of addr, clockwise.
RingNeighbour(addr, sl) ==
    LET all   == {sl[i] : i \in DOMAIN sl}
        above == {x \in all : Less32(ShardHash[addr], ShardHash[x])}
        from  == IF above # {} THEN above ELSE all
    IN  CHOOSE x \in from : \A y \in from : Leq32(ShardHash[x], ShardHash[y])

\* Adding a Cache moves a key only to the added Cache; removing one moves
\* only the keys the removed Cache owned.
C20_OnlyOwnKeysMove(p) ==
    /\ \A addr \in RingAddrs \ {s[i] : i \in Idx} : \A at \in 0..len :
         Owner(Inserted(s, at, addr), op[p].key) \in {s[c[p]], addr}
    /\ len >= 2
       => \A at \in Idx :
            Owner(Removed(s, at), op[p].key) # s[c[p]] => s[c[p]] = s[at]

\* C20: for the Cache a call has been routed to, adding a Cache to the
\* shard set moves the key only if it moves to the added Cache, and
\* removing a Cache moves the key only if the removed Cache owned it, and
\* then to the ring neighbour of the removed Cache.
C20_MinimalRedistribution ==
    \A p \in Procs :
        (variant = "ring" /\ Routed(p))
        => /\ C20_OnlyOwnKeysMove(p)
           /\ len >= 2
              => \A at \in Idx :
                   s[c[p]] = s[at]
                   => Owner(Removed(s, at), op[p].key)
                        = RingNeighbour(s[at], Removed(s, at))

\* ----------------------------------------------------- frame and progress
\* The step is one of goroutine p, or of a goroutine its Keys() has started.
Acts(p) == pc'[p] # pc[p] \/ tpc'[p] # tpc[p]
\* The call of p the step belongs to.
Current(p) == IF op[p].name = None THEN op'[p] ELSE op[p]

\* C21, for a step of goroutine p: inside Get, Contains or Keys no map
\* changes; inside Set, Update or Delete on key k only the entry of k in
\* the Cache k is routed to may change; a step that changes a map leaves p
\* holding the write lock, and the step after it is the return of a Set
\* without error or of a Delete with true, so a Set that returns the
\* already-exists error and a Delete that returns false have changed
\* nothing.
C21_Step(p) ==
    Acts(p)
    => /\ Current(p).name \in {"Get", "Contains", "Keys"} => store' = store
       /\ Current(p).name \in {"Set", "Update", "Delete"}
          => \A i \in Idx : \A k \in Keys_ :
               (i # Resolve(Current(p).key) \/ k # Current(p).key)
               => /\ Has(store'[i], k) = Has(store[i], k)
                  /\ Lookup(store'[i], k) = Lookup(store[i], k)
       /\ store' # store => Writing(p)'
       /\ Writing(p)
          => /\ Returns(p) /\ store' = store
             /\ op[p].name = "Set" => last'[p].err = Nil
             /\ op[p].name = "Delete" => last'[p].rok

C21_OneShardTouched ==
    [][ /\ store' # store => \E p \in Procs : Acts(p)
        /\ \A p \in Procs : C21_Step(p) ]_vars

\* A Set on a key that is stored in one Cache of two, the other Cache
\* holding the other key, has found the key and is about to return the
\* already-exists error.
C21_Witness ==
    \E p \in Procs : \E i, j \in Idx :
        /\ Sharded /\ len = 2 /\ i # j
        /\ op[p].name = "Set" /\ op[p].had /\ c[p] = i
        /\ pc[p] = "Get_RUnlock" /\ ok[p]
        /\ DOMAIN store[i] = {op[p].key}
        /\ DOMAIN store[j] = Keys_ \ {op[p].key}

\* Goroutine p is inside a call.
Pending(p) == pc[p] # "idle"

\* C22: no reachable state of a shard set of one or more caches with a
\* call in progress is a deadlock: some goroutine can take a step.
C22_NoDeadlock ==
    (len >= 1 /\ \E p \in Procs : Pending(p)) => ENABLED <<Next>>_vars

\* C22, the rest of it where no lookup panics: under fair scheduling every
\* call returns, and Keys() returns once its goroutines are done.
C22_ReturnsUnlessPanic ==
    \A p \in Procs : Pending(p) ~> (~Pending(p) \/ crashed)

\* Goroutine p is about to take the lock of its Cache, shared / exclusive.
AtRLock(p) == pc[p] \in {"Get_RLock", "Contains_RLock"}
AtLock(p) == pc[p] \in {"Set_Lock", "Update_Lock", "Delete_Lock"}

\* C23: a goroutine inside a keyed method can take its next step whenever
\* the lock of its own Cache allows it (no writer for RLock, no writer and
\* no reader for Lock, nothing to wait for before an unlock), whatever
\* locks of other caches are held by other goroutines.
C23_NoGlobalLock ==
    \A p \in Procs :
        ( /\ Sharded /\ ~crashed
          /\ AtRLock(p) \/ AtLock(p) \/ Reading(p) \/ Writing(p)
          /\ AtRLock(p) => writer[c[p]] = None
          /\ AtLock(p) => writer[c[p]] = None /\ readers[c[p]] = {} )
        => ENABLED <<Progress(p)>>_vars

\* Two goroutines hold the write locks of two different caches at once.
C23_Witness ==
    \E p, q \in Procs :
        /\ Sharded /\ p # q /\ Writing(p) /\ Writing(q) /\ c[p] # c[q]
        /\ writer[c[p]] = p /\ writer[c[q]] = q

====
